---- MODULE Spec2Model ----
(***************************************************************************)
(* A model of DataBridgesRepositoryImpl                                    *)
(* (src/data_bridges_repository_impl.py): the token refresh, the fetch of  *)
(* one page with its 401 and backoff recovery paths, the page count and    *)
(* the fan-out / merge of fetch_all_data_bridges_data.                     *)
(*                                                                         *)
(* Caller 0 is the calling thread (the fetch_data_one_page call made by    *)
(* get_total_pages); caller p >= 1 is the pool task of page p.             *)
(***************************************************************************)
EXTENDS Integers, Sequences, FiniteSets, TLC

\* ------------------------------------------------------------------ bounds
\* Largest page count a first response may announce.
MaxPages == 3
\* Largest number of items one page response carries.
MaxItems == 1
\* Largest page_size a caller passes in params.
MaxPageSize == 2
\* Error answers (transport or token provider) the pool tasks receive in one
\* fetch_all_data_bridges_data call; the calling thread's fetch is not limited.
MaxFaults == 1
\* Pages of the runs in which page tasks race into errors (SpecPool), and the
\* error answers their tasks may receive.
RacePages == 2
RaceFaults == 2

\* ------------------------------------------------------- program constants
\* Mutant of DATA_BRIDGES_THREADS: one worker more.
DATA_BRIDGES_THREADS_plus_one == 5 + 1
DATA_BRIDGES_THREADS == 5
\* Pages of the runs that fill the worker pool (SpecPool): one page more than
\* the pool has workers.
PoolPages == DATA_BRIDGES_THREADS + 1
CURRENT_MAX_DATA_BRIDGES_PAGE_SIZE == 1000
refresh_max_retries == 5
refresh_backoff_factor == 2
\* Mutant of retry_max_retries: one retry more.
retry_max_retries_plus_one == 10 + 1
retry_max_retries == 10
retry_backoff_factor == 2

\* A missing attribute / missing dict key / Python None in an integer slot.
Absent == -1

\* Statuses an ApiException carries, and 200 for a call that returns.
OK == 200
Unauthorized == 401
NotFound == 404
RetryableStatuses == {429, 500, 502, 503, 504}
\* An exception that is not an ApiException (caught by "except Exception").
OtherException == 0
\* Exception("Max retries reached") of _retry_with_backoff.
MaxRetriesReached == 1
\* Exception("Max retries reached while trying to refresh the access token.")
RefreshMaxRetriesReached == 2
NoError == -1

\* What the transport or the token provider may answer to one call.
Statuses == {OK, Unauthorized, NotFound, OtherException} \cup RetryableStatuses

\* ------------------------------------------------------------------ state
VARIABLES
    registered,    \* endpoint_dict.get(endpoint) is not None
    arg_page,      \* params['page'] as the caller passed it (Absent: no key)
    params,        \* the params dict of fetch_all_data_bridges_data
    access_token,  \* configuration.access_token
    api_client,    \* identity of self.api_client
    endpoint_dict, \* identity of the client the endpoint_dict methods are bound to
    issued,        \* tokens / clients created so far (source of fresh identities)
    call,          \* per caller: the frame of its fetch_data_one_page call
    result,        \* per page: the table its finished future holds
    pc,            \* position of the calling thread in fetch_all_data_bridges_data
    first_res,     \* get_total_pages: the total_items of its response
    total_pages,   \* _total_pages
    page,          \* loop variable of the submit loop
    futures,       \* the futures list (pages, in submission order)
    consumed,      \* futures the as_completed loop has taken the result of
    all_data_df,   \* the table being built (rows are <<page, index>>)
    error,         \* the exception that reached / is reaching the caller
    faults,        \* error answers given to pool tasks so far
    budget         \* error answers the pool tasks of this run may receive

vars == <<registered, arg_page, params, access_token, api_client, endpoint_dict,
          issued, call, result, pc, first_res, total_pages, page, futures, consumed,
          all_data_df, error, faults, budget>>

\* The largest of the page counts a run may have.
MaxCallers ==
    LET a == IF MaxPages > PoolPages THEN MaxPages ELSE PoolPages
    IN  IF a > RacePages THEN a ELSE RacePages

Callers == 0..MaxCallers

\* ------------------------------------------------------------ pure helpers
\* Mutant of retryable: every failure status but 401 is retried.
retryable_all_errors(s) == s \notin {OK, Unauthorized}

\* e.status in [429, 500, 502, 503, 504]
retryable(s) == s \in RetryableStatuses

\* Mutant of stored_token: the assignment is made whatever the provider answers.
stored_token_always(s, old, fresh) == fresh

\* Lines 90-91: configuration.access_token is assigned the value token.refresh
\* returns; when it raises the assignment is not made.
stored_token(s, old, fresh) == IF s = OK THEN fresh ELSE old

\* Mutant of refresh_wait_time: a linear schedule.
refresh_wait_time_linear(attempt) == refresh_backoff_factor * attempt

\* wait_time = backoff_factor ** attempt      (_refresh_access_token)
refresh_wait_time(attempt) == refresh_backoff_factor ^ attempt

\* wait_time = backoff_factor ** attempt      (_retry_with_backoff)
retry_wait_time(attempt) == retry_backoff_factor ^ attempt

\* How the code tells the answers apart: a return, a 401, a retryable status,
\* or anything else.
outcome(s) ==
    IF s = OK THEN "ok"
    ELSE IF s = Unauthorized THEN "401"
    ELSE IF s \in RetryableStatuses THEN "retryable"
    ELSE "error"

\* An event of a call's trace: a transport call (arg: the client it went
\* through) or a provider call, with the outcome of the call; the entry of
\* _refresh_access_token; a time.sleep (arg: the wait).
Ev(kind, arg, st) == [ev |-> kind, arg |-> arg, st |-> st]

\* A response object: attributes total_items and items (number of items),
\* either of which may be missing.  PyNone is the None returned for an
\* unregistered endpoint.
Response(t, n) == [kind |-> "obj", total_items |-> t, items |-> n]
PyNone == [kind |-> "None", total_items |-> Absent, items |-> Absent]

hasattr_total_items(res) == res.total_items # Absent
hasattr_items(res) == res.items # Absent

\* params.get('page_size', self.CURRENT_MAX_DATA_BRIDGES_PAGE_SIZE)
params_get_page_size(p) ==
    IF p.page_size # Absent THEN p.page_size ELSE CURRENT_MAX_DATA_BRIDGES_PAGE_SIZE

\* Mutant of pages_formula: the division rounds down.
pages_formula_floor(total_items, page_size) == total_items \div page_size

\* (total_items + page_size - 1) // page_size
pages_formula(total_items, page_size) == (total_items + page_size - 1) \div page_size

\* Mutant of get_total_pages: the page count is clamped to 1 from below.
get_total_pages_at_least_one(res, p) ==
    IF hasattr_total_items(res) /\ res.total_items > 0
    THEN pages_formula(res.total_items, params_get_page_size(p))
    ELSE 1

\* get_total_pages, after its fetch_data_one_page call returned res.
get_total_pages(res, p) ==
    IF hasattr_total_items(res)
    THEN pages_formula(res.total_items, params_get_page_size(p))
    ELSE 1

\* pd.DataFrame(normalize_items(res.items)): one row per item.
DataFrame(n, pg) == [i \in 1..n |-> <<pg, i>>]

\* fetch_one_data_bridges_page, after its fetch_data_one_page call returned res.
fetch_one_data_bridges_page(res, pg) ==
    IF hasattr_items(res) THEN DataFrame(res.items, pg) ELSE <<>>

\* Mutant of concat: the table built so far is dropped.
concat_dropping(df, res_df) == res_df

\* pd.concat([all_data_df, res_df], ignore_index=True)
concat(df, res_df) == df \o res_df

\* 'page' not in [params]: [params] is a list whose only element is the dict
\* itself, and a dict never equals the string 'page'.
page_not_in_list(p) == \A i \in 1..Len(<<p>>) : TRUE

\* range(params['page'], _total_pages + 1)
page_range(first, last) == first..last

\* ------------------------------------------------------------ call frames
Idle == [pc |-> "idle", attempt |-> 0, trace |-> <<>>, res |-> PyNone, err |-> NoError]

\* Mutant of first_call: a 401 goes to the retry without a token refresh.
first_call_no_refresh(r, reg, s, resp, client) ==
    IF ~reg THEN [r EXCEPT !.pc = "returned", !.res = PyNone]
    ELSE LET t == Append(r.trace, Ev("transport", client, outcome(s))) IN
         IF s = OK THEN [r EXCEPT !.pc = "returned", !.trace = t, !.res = resp]
         ELSE IF s = Unauthorized
              THEN [r EXCEPT !.pc = "recall", !.attempt = 0, !.trace = t]
         ELSE IF retryable(s)
              THEN [r EXCEPT !.pc = "backoff", !.attempt = 0, !.trace = t]
         ELSE [r EXCEPT !.pc = "raised", !.trace = t, !.err = s]

\* Mutant of first_call: an endpoint that is not registered raises.
first_call_raises_invalid_endpoint(r, reg, s, resp, client) ==
    IF ~reg THEN [r EXCEPT !.pc = "raised", !.err = OtherException]
    ELSE LET t == Append(r.trace, Ev("transport", client, outcome(s))) IN
         IF s = OK THEN [r EXCEPT !.pc = "returned", !.trace = t, !.res = resp]
         ELSE IF s = Unauthorized
              THEN [r EXCEPT !.pc = "refresh", !.attempt = 0,
                             !.trace = Append(t, Ev("refresh", 0, ""))]
         ELSE IF retryable(s)
              THEN [r EXCEPT !.pc = "backoff", !.attempt = 0, !.trace = t]
         ELSE [r EXCEPT !.pc = "raised", !.trace = t, !.err = s]

\* Mutant of first_call: a 401 that arrives while another caller is refreshing
\* the token does not start a refresh of its own.
first_call_single_flight(r, reg, s, resp, client) ==
    IF ~reg THEN [r EXCEPT !.pc = "returned", !.res = PyNone]
    ELSE LET t == Append(r.trace, Ev("transport", client, outcome(s))) IN
         IF s = OK THEN [r EXCEPT !.pc = "returned", !.trace = t, !.res = resp]
         ELSE IF s = Unauthorized
              THEN IF \E c \in Callers : call[c].pc = "refresh"
                   THEN [r EXCEPT !.pc = "recall", !.attempt = 0, !.trace = t]
                   ELSE [r EXCEPT !.pc = "refresh", !.attempt = 0,
                                  !.trace = Append(t, Ev("refresh", 0, ""))]
         ELSE IF retryable(s)
              THEN [r EXCEPT !.pc = "backoff", !.attempt = 0, !.trace = t]
         ELSE [r EXCEPT !.pc = "raised", !.trace = t, !.err = s]

\* fetch_data_one_page up to the outcome of its first transport call
\* (lines 109-132); client is the client the endpoint method is bound to.
first_call(r, reg, s, resp, client) ==
    IF ~reg THEN [r EXCEPT !.pc = "returned", !.res = PyNone]
    ELSE LET t == Append(r.trace, Ev("transport", client, outcome(s))) IN
         IF s = OK THEN [r EXCEPT !.pc = "returned", !.trace = t, !.res = resp]
         ELSE IF s = Unauthorized
              THEN [r EXCEPT !.pc = "refresh", !.attempt = 0,
                             !.trace = Append(t, Ev("refresh", 0, ""))]
         ELSE IF retryable(s)
              THEN [r EXCEPT !.pc = "backoff", !.attempt = 0, !.trace = t]
         ELSE [r EXCEPT !.pc = "raised", !.trace = t, !.err = s]

\* One iteration of the loop of _refresh_access_token (lines 88-106), the
\* raise after the loop included.
refresh_attempt(r, s) ==
    LET t == Append(r.trace, Ev("provider", 0, outcome(s))) IN
    IF s = OK THEN [r EXCEPT !.pc = "recall", !.trace = t]
    ELSE IF retryable(s)
         THEN LET w == Append(t, Ev("sleep", refresh_wait_time(r.attempt), "")) IN
              IF r.attempt + 1 < refresh_max_retries
              THEN [r EXCEPT !.attempt = r.attempt + 1, !.trace = w]
              ELSE [r EXCEPT !.pc = "raised", !.trace = w,
                             !.err = RefreshMaxRetriesReached]
    ELSE [r EXCEPT !.pc = "raised", !.trace = t, !.err = s]

\* Mutant of recall: a second 401 starts another refresh.
recall_refresh_again(r, s, resp, client) ==
    LET t == Append(r.trace, Ev("transport", client, outcome(s))) IN
    IF s = OK THEN [r EXCEPT !.pc = "returned", !.trace = t, !.res = resp]
    ELSE IF s = Unauthorized
         THEN [r EXCEPT !.pc = "refresh", !.attempt = 0,
                        !.trace = Append(t, Ev("refresh", 0, ""))]
    ELSE [r EXCEPT !.pc = "raised", !.trace = t, !.err = s]

\* The single retry after the refresh (lines 122-123): whatever it raises
\* leaves fetch_data_one_page.
recall(r, s, resp, client) ==
    LET t == Append(r.trace, Ev("transport", client, outcome(s))) IN
    IF s = OK THEN [r EXCEPT !.pc = "returned", !.trace = t, !.res = resp]
    ELSE [r EXCEPT !.pc = "raised", !.trace = t, !.err = s]

\* Mutant of retry_attempt: a 401 inside the backoff loop starts a refresh.
retry_attempt_refresh_on_401(r, s, resp, client) ==
    LET t == Append(r.trace, Ev("transport", client, outcome(s))) IN
    IF s = OK THEN [r EXCEPT !.pc = "returned", !.trace = t, !.res = resp]
    ELSE IF s = Unauthorized
         THEN [r EXCEPT !.pc = "refresh", !.attempt = 0,
                        !.trace = Append(t, Ev("refresh", 0, ""))]
    ELSE IF retryable(s)
         THEN LET w == Append(t, Ev("sleep", retry_wait_time(r.attempt), "")) IN
              IF r.attempt + 1 < retry_max_retries
              THEN [r EXCEPT !.attempt = r.attempt + 1, !.trace = w]
              ELSE [r EXCEPT !.pc = "raised", !.trace = w, !.err = MaxRetriesReached]
    ELSE [r EXCEPT !.pc = "raised", !.trace = t, !.err = s]

\* One iteration of the loop of _retry_with_backoff (lines 138-148), the
\* raise after the loop included.
retry_attempt(r, s, resp, client) ==
    LET t == Append(r.trace, Ev("transport", client, outcome(s))) IN
    IF s = OK THEN [r EXCEPT !.pc = "returned", !.trace = t, !.res = resp]
    ELSE IF retryable(s)
         THEN LET w == Append(t, Ev("sleep", retry_wait_time(r.attempt), "")) IN
              IF r.attempt + 1 < retry_max_retries
              THEN [r EXCEPT !.attempt = r.attempt + 1, !.trace = w]
              ELSE [r EXCEPT !.pc = "raised", !.trace = w, !.err = MaxRetriesReached]
    ELSE [r EXCEPT !.pc = "raised", !.trace = t, !.err = s]

\* ------------------------------------------------------------ environment
\* total_items values a first response may carry for a page size: around
\* every multiple of the page size, up to MaxPages pages.
TotalItemsChoices(ps) ==
    {t \in {k * ps + d : k \in 0..MaxPages, d \in {-1, 0, 1, ps \div 2}} :
        t >= 0 /\ t <= MaxPages * ps}

\* Responses the transport may return to caller c.  The attribute the caller
\* never reads (items for get_total_pages, total_items for a page task) is
\* left out of the response.
Responses(c) ==
    IF c = 0
    THEN {Response(t, Absent) :
            t \in TotalItemsChoices(params_get_page_size(params)) \cup {Absent}}
    ELSE {Response(Absent, n) : n \in (0..MaxItems) \cup {Absent}}

\* The response that comes with status s (none with an error).
Answers(c, s) == IF s = OK THEN Responses(c) ELSE {PyNone}

\* An error answer to a pool task uses up the fault budget.
Charged(c, s) == IF c # 0 /\ s # OK THEN 1 ELSE 0

\* Mutant of result_raises: the exception of a failed task is swallowed.
result_raises_never(r) == FALSE

\* future.result() raises the exception the task ended with.
result_raises(r) == r.pc = "failed"

\* Mutant of finished: a future that ended with an exception never counts as
\* finished.
finished_only_done(r) == r.pc = "done"

\* A future is finished once fetch_one_data_bridges_page has returned or raised;
\* until then its task occupies a worker.
finished(r) == r.pc \in {"done", "failed"}
running(r) == r.pc \in {"call", "refresh", "recall", "backoff"}

\* Lines 188-194: in a pool task, fetch_one_data_bridges_page goes on as soon as
\* its fetch_data_one_page call (frame r) returns or raises: it builds the table
\* of the response, or ends with the exception, and the future is finished.
\* The calling thread (caller 0) keeps the frame for get_total_pages.
task_frame(c, r) ==
    IF c = 0 \/ r.pc \notin {"returned", "raised"} THEN r
    ELSE IF r.pc = "returned" THEN [Idle EXCEPT !.pc = "done"]
    ELSE [Idle EXCEPT !.pc = "failed", !.err = r.err]

task_result(c, r, old) ==
    IF c # 0 /\ r.pc = "returned" THEN fetch_one_data_bridges_page(r.res, c) ELSE old

Range(seq) == {seq[i] : i \in 1..Len(seq)}

\* The keyword arguments a caller passes: a starting page, or a page size, or
\* neither.
Kwargs ==
    {[page |-> p, page_size |-> Absent] : p \in {Absent} \cup (1..MaxPages)}
    \cup {[page |-> Absent, page_size |-> ps] : ps \in 1..MaxPageSize}

\* ------------------------------------------------------------------ Init
\* The state after __init__ (token 1 obtained, client 1 built, endpoint_dict
\* bound to it) at the entry of fetch_all_data_bridges_data(endpoint, **params).
Init ==
    /\ registered \in BOOLEAN
    /\ \E kw \in Kwargs :
          /\ arg_page = kw.page
          /\ params = kw
    /\ access_token = 1
    /\ api_client = 1
    /\ endpoint_dict = 1
    /\ issued = 1
    /\ call = [c \in Callers |-> IF c = 0 THEN [Idle EXCEPT !.pc = "call"] ELSE Idle]
    /\ result = [p \in Callers |-> <<>>]
    /\ pc = "get_total_pages"
    /\ first_res = PyNone
    /\ total_pages = 0
    /\ page = 0
    /\ futures = <<>>
    /\ consumed = {}
    /\ all_data_df = <<>>
    /\ error = NoError
    /\ faults = 0
    /\ budget = MaxFaults

\* -------------------------------------------- fetch_data_one_page, per caller
\* Lines 109-132: the endpoint lookup and the first transport call.
FirstCall(c) ==
    /\ call[c].pc = "call"
    /\ \E s \in (IF registered THEN Statuses ELSE {OK}) : \E resp \in Answers(c, s) :
          /\ faults + Charged(c, s) <= budget
          /\ LET r == first_call(call[c], registered, s, resp, endpoint_dict) IN
               /\ call' = [call EXCEPT ![c] = task_frame(c, r)]
               /\ result' = [result EXCEPT ![c] = task_result(c, r, result[c])]
          /\ faults' = faults + Charged(c, s)
    /\ UNCHANGED <<budget, registered, arg_page, params, access_token, api_client, endpoint_dict,
                   issued, pc, first_res, total_pages, page, futures, consumed,
                   all_data_df, error>>

\* Lines 119-121 with 88-106: one provider call of _refresh_access_token; a
\* successful one stores the token, after which the client is rebuilt.
RefreshAttempt(c) ==
    /\ call[c].pc = "refresh"
    /\ \E s \in Statuses :
          /\ faults + Charged(c, s) <= budget
          /\ LET r == refresh_attempt(call[c], s) IN
               /\ call' = [call EXCEPT ![c] = task_frame(c, r)]
               /\ result' = [result EXCEPT ![c] = task_result(c, r, result[c])]
          /\ faults' = faults + Charged(c, s)
          /\ access_token' = stored_token(s, access_token, issued + 1)
          /\ IF s = OK
             THEN /\ api_client' = issued + 1
                  /\ issued' = issued + 1
             ELSE UNCHANGED <<api_client, issued>>
    /\ UNCHANGED <<budget, registered, arg_page, params, endpoint_dict, pc, first_res,
                   total_pages, page, futures, consumed, all_data_df, error>>

\* Lines 122-123: the retry after the refresh.
Recall(c) ==
    /\ call[c].pc = "recall"
    /\ \E s \in Statuses : \E resp \in Answers(c, s) :
          /\ faults + Charged(c, s) <= budget
          /\ LET r == recall(call[c], s, resp, endpoint_dict) IN
               /\ call' = [call EXCEPT ![c] = task_frame(c, r)]
               /\ result' = [result EXCEPT ![c] = task_result(c, r, result[c])]
          /\ faults' = faults + Charged(c, s)
    /\ UNCHANGED <<budget, registered, arg_page, params, access_token, api_client, endpoint_dict,
                   issued, pc, first_res, total_pages, page, futures, consumed,
                   all_data_df, error>>

\* Lines 126, 138-148: one attempt of _retry_with_backoff.
RetryAttempt(c) ==
    /\ call[c].pc = "backoff"
    /\ \E s \in Statuses : \E resp \in Answers(c, s) :
          /\ faults + Charged(c, s) <= budget
          /\ LET r == retry_attempt(call[c], s, resp, endpoint_dict) IN
               /\ call' = [call EXCEPT ![c] = task_frame(c, r)]
               /\ result' = [result EXCEPT ![c] = task_result(c, r, result[c])]
          /\ faults' = faults + Charged(c, s)
    /\ UNCHANGED <<budget, registered, arg_page, params, access_token, api_client, endpoint_dict,
                   issued, pc, first_res, total_pages, page, futures, consumed,
                   all_data_df, error>>

\* ------------------------------------------------------------ the pool
\* A worker of the ThreadPoolExecutor takes the oldest queued task; at most
\* DATA_BRIDGES_THREADS workers exist.
StartTask(p) ==
    /\ p \in Range(futures)
    /\ call[p].pc = "queued"
    /\ \A q \in Range(futures) : q < p => call[q].pc # "queued"
    /\ Cardinality({q \in Range(futures) : running(call[q])}) < DATA_BRIDGES_THREADS
    /\ call' = [call EXCEPT ![p].pc = "call"]
    /\ UNCHANGED <<budget, registered, arg_page, params, access_token, api_client, endpoint_dict,
                   issued, result, pc, first_res, total_pages, page, futures, consumed,
                   all_data_df, error, faults>>

\* ------------------------------------------- fetch_all_data_bridges_data
\* Line 159, lines 177-185: get_total_pages returns.
GetTotalPagesReturn ==
    /\ pc = "get_total_pages"
    /\ call[0].pc = "returned"
    /\ total_pages' = get_total_pages(call[0].res, params)
    /\ first_res' = call[0].res
    /\ call' = [call EXCEPT ![0] = Idle]
    /\ pc' = "pool"
    /\ UNCHANGED <<budget, registered, arg_page, params, access_token, api_client, endpoint_dict,
                   issued, result, page, futures, consumed, all_data_df, error, faults>>

\* Line 159: the fetch of get_total_pages raised; nothing catches it.
GetTotalPagesRaise ==
    /\ pc = "get_total_pages"
    /\ call[0].pc = "raised"
    /\ error' = call[0].err
    /\ call' = [call EXCEPT ![0] = Idle]
    /\ pc' = "raised"
    /\ UNCHANGED <<budget, registered, arg_page, params, access_token, api_client, endpoint_dict,
                   issued, result, first_res, total_pages, page, futures, consumed,
                   all_data_df, faults>>

\* Lines 161-165: the executor is entered, params['page'] defaulted, the
\* submit loop initialised.
EnterPool ==
    /\ pc = "pool"
    /\ params' = IF page_not_in_list(params) THEN [params EXCEPT !.page = 1] ELSE params
    /\ page' = params'.page
    /\ pc' = IF params'.page \in page_range(params'.page, total_pages)
             THEN "submit" ELSE "collect"
    /\ first_res' = PyNone
    /\ UNCHANGED <<budget, registered, arg_page, access_token, api_client, endpoint_dict, issued,
                   call, result, total_pages, futures, consumed, all_data_df, error, faults>>

\* Lines 165-168: one iteration of the submit loop.
Submit ==
    /\ pc = "submit"
    /\ call' = [call EXCEPT ![page] = [Idle EXCEPT !.pc = "queued"]]
    /\ futures' = Append(futures, page)
    /\ page' = page + 1
    /\ pc' = IF page + 1 \in page_range(params.page, total_pages) THEN "submit" ELSE "collect"
    /\ UNCHANGED <<budget, registered, arg_page, params, access_token, api_client, endpoint_dict,
                   issued, result, first_res, total_pages, consumed, all_data_df, error, faults>>

\* Lines 170-172: as_completed yields a finished future, whose table is
\* appended.
CollectResult(f) ==
    /\ pc = "collect"
    /\ f \in Range(futures) \ consumed
    /\ finished(call[f])
    /\ ~result_raises(call[f])
    /\ all_data_df' = concat(all_data_df, result[f])
    /\ consumed' = consumed \cup {f}
    /\ UNCHANGED <<budget, registered, arg_page, params, access_token, api_client, endpoint_dict,
                   issued, call, result, pc, first_res, total_pages, page, futures, error, faults>>

\* Line 171: future.result() raises; the with block is left, and its exit
\* waits for the pool (shutdown(wait=True)).
CollectError(f) ==
    /\ pc = "collect"
    /\ f \in Range(futures) \ consumed
    /\ finished(call[f])
    /\ result_raises(call[f])
    /\ error' = call[f].err
    /\ consumed' = consumed \cup {f}
    /\ pc' = "shutdown"
    /\ UNCHANGED <<budget, registered, arg_page, params, access_token, api_client, endpoint_dict,
                   issued, call, result, first_res, total_pages, page, futures, all_data_df, faults>>

\* Line 174: every future was consumed; the table is returned.
ReturnTable ==
    /\ pc = "collect"
    /\ consumed = Range(futures)
    /\ pc' = "returned"
    /\ UNCHANGED <<budget, registered, arg_page, params, access_token, api_client, endpoint_dict,
                   issued, call, result, first_res, total_pages, page, futures, consumed,
                   all_data_df, error, faults>>

\* Mutant of Shutdown: the exception reaches the caller without the wait for
\* the pool.
ShutdownWithoutWaiting ==
    /\ pc = "shutdown"
    /\ pc' = "raised"
    /\ UNCHANGED <<budget, registered, arg_page, params, access_token, api_client,
                   endpoint_dict, issued, call, result, first_res, total_pages, page,
                   futures, consumed, all_data_df, error, faults>>

\* The exit of the with block ends once every submitted task has finished;
\* the exception then reaches the caller.
Shutdown ==
    /\ pc = "shutdown"
    /\ \A f \in Range(futures) : finished(call[f])
    /\ pc' = "raised"
    /\ UNCHANGED <<budget, registered, arg_page, params, access_token, api_client, endpoint_dict,
                   issued, call, result, first_res, total_pages, page, futures, consumed,
                   all_data_df, error, faults>>

Next ==
    \/ \E c \in Callers : FirstCall(c)
    \/ \E c \in Callers : RefreshAttempt(c)
    \/ \E c \in Callers : Recall(c)
    \/ \E c \in Callers : RetryAttempt(c)
    \/ \E p \in Callers : StartTask(p)
    \/ GetTotalPagesReturn
    \/ GetTotalPagesRaise
    \/ EnterPool
    \/ Submit
    \/ \E f \in Callers : CollectResult(f)
    \/ \E f \in Callers : CollectError(f)
    \/ ReturnTable
    \/ Shutdown

Spec == Init /\ [][Next]_vars

\* The runs of SpecPool: more pages than workers and no error answer, or a
\* few pages whose tasks receive error answers.
PoolScenarios ==
    {[pages |-> PoolPages, budget |-> 0], [pages |-> RacePages, budget |-> RaceFaults]}

\* The state in which get_total_pages has just returned the page count of a
\* scenario, for a registered endpoint and a caller that passed neither page
\* nor page_size.
InitPool ==
    /\ registered = TRUE
    /\ arg_page = Absent
    /\ params = [page |-> Absent, page_size |-> Absent]
    /\ access_token = 1
    /\ api_client = 1
    /\ endpoint_dict = 1
    /\ issued = 1
    /\ call = [c \in Callers |-> Idle]
    /\ result = [p \in Callers |-> <<>>]
    /\ pc = "pool"
    /\ \E sc \in PoolScenarios :
          /\ first_res = Response(sc.pages * CURRENT_MAX_DATA_BRIDGES_PAGE_SIZE, Absent)
          /\ budget = sc.budget
    /\ total_pages = get_total_pages(first_res, params)
    /\ page = 0
    /\ futures = <<>>
    /\ consumed = {}
    /\ all_data_df = <<>>
    /\ error = NoError
    /\ faults = 0

\* The steps after get_total_pages: the pool, its tasks, the merge.
NextPool ==
    \/ \E c \in Callers : FirstCall(c)
    \/ \E c \in Callers : RefreshAttempt(c)
    \/ \E c \in Callers : Recall(c)
    \/ \E c \in Callers : RetryAttempt(c)
    \/ \E p \in Callers : StartTask(p)
    \/ EnterPool
    \/ Submit
    \/ \E f \in Callers : CollectResult(f)
    \/ \E f \in Callers : CollectError(f)
    \/ ReturnTable
    \/ Shutdown

SpecPool == InitPool /\ [][NextPool]_vars

TypeOK ==
    /\ pc \in {"get_total_pages", "pool", "submit", "collect", "shutdown", "returned", "raised"}
    /\ total_pages \in Callers
    /\ faults \in 0..budget
    /\ consumed \subseteq Range(futures)

\* ------------------------------------------------------- reading a trace
\* The events of kind k of a trace, in order.
Events(t, k) == SelectSeq(t, LAMBDA e : e.ev = k)

\* Positions of the events of kind k in a trace, ascending.
RECURSIVE PositionsFrom(_, _, _)
PositionsFrom(t, k, i) ==
    IF i > Len(t) THEN <<>>
    ELSE IF t[i].ev = k THEN <<i>> \o PositionsFrom(t, k, i + 1)
    ELSE PositionsFrom(t, k, i + 1)
Positions(t, k) == PositionsFrom(t, k, 1)

\* The waits of a trace, in order.
Waits(t) == [i \in 1..Len(Events(t, "sleep")) |-> Events(t, "sleep")[i].arg]

\* The first n transport calls of the trace were all answered with outcome st.
FirstAnswers(t, n, st) ==
    /\ Len(Events(t, "transport")) >= n
    /\ \A i \in 1..n : Events(t, "transport")[i].st = st

RECURSIVE SumLen(_, _)
SumLen(f, n) == IF n = 0 THEN 0 ELSE Len(f[n]) + SumLen(f, n - 1)

\* Rows of page p in a table, in table order.
RowsOf(df, p) == SelectSeq(df, LAMBDA row : row[1] = p)

\* C1: the rows of the returned table are in ascending page order, for every
\* order in which the page tasks complete.
C1_RowsInPageOrder ==
    pc = "returned" =>
        \A i, j \in 1..Len(all_data_df) :
            i < j => all_data_df[i][1] <= all_data_df[j][1]

\* C2: when every page fetch succeeded, the returned table has as many rows as
\* pages 1..N have items together, and holds the rows of each page exactly
\* once, whatever the order of completion.
C2_RowCountIsSum ==
    pc = "returned" =>
        /\ \A p \in 1..total_pages : call[p].pc = "done"
        /\ Len(all_data_df) = SumLen(result, total_pages)
        /\ \A p \in 1..total_pages : RowsOf(all_data_df, p) = result[p]

C2_Witness ==
    /\ pc = "returned"
    /\ total_pages = 3
    /\ Len(all_data_df) = 2
    /\ result[2] = <<>>
    /\ all_data_df[1][1] = 3

\* C3: a call whose first transport call is answered 401 and whose second
\* succeeds returns that response, having entered the token refresh exactly
\* once, between the two transport calls, and made no further transport call.
C3_RefreshOnceThenSuccess ==
    \A c \in Callers :
        LET t == call[c].trace
            T == Positions(t, "transport")
            R == Positions(t, "refresh")
        IN  (Len(T) >= 2 /\ t[T[1]].st = "401" /\ t[T[2]].st = "ok") =>
                /\ call[c].pc = "returned"
                /\ call[c].res.kind = "obj"
                /\ Len(T) = 2
                /\ Len(R) = 1
                /\ T[1] < R[1] /\ R[1] < T[2]

C3_Witness ==
    /\ call[0].pc = "returned"
    /\ Len(call[0].trace) = 4
    /\ call[0].trace[1] = Ev("transport", 1, "401")
    /\ call[0].trace[2].ev = "refresh"
    /\ call[0].trace[3] = Ev("provider", 0, "ok")
    /\ call[0].trace[4] = Ev("transport", 1, "ok")

\* C4: a call answered 401 before and after the refresh raises the second
\* 401: two transport calls, one refresh, no backoff wait after the retry.
C4_Second401Propagates ==
    \A c \in Callers :
        LET t == call[c].trace
            T == Positions(t, "transport")
        IN  (Len(T) >= 2 /\ t[T[1]].st = "401" /\ t[T[2]].st = "401") =>
                /\ call[c].pc = "raised"
                /\ call[c].err = Unauthorized
                /\ Len(T) = 2
                /\ Len(Positions(t, "refresh")) = 1
                /\ T[2] = Len(t)

C4_Witness ==
    /\ call[0].pc = "raised"
    /\ call[0].err = Unauthorized
    /\ Len(Events(call[0].trace, "transport")) = 2
    /\ Len(Events(call[0].trace, "refresh")) = 1

\* C5: a call answered 429 five times and then with a response returns that
\* response, every one of the five retries coming right after a backoff wait,
\* the waits being 1, 2, 4, 8, 16.
C5_FiveWaitsBeforeFiveRetries ==
    \A c \in Callers :
        LET t == call[c].trace
            T == Positions(t, "transport")
        IN  (FirstAnswers(t, 5, "retryable") /\ Len(T) >= 6 /\ t[T[6]].st = "ok") =>
                /\ call[c].pc = "returned"
                /\ Waits(t) = <<1, 2, 4, 8, 16>>
                /\ \A k \in 2..6 : t[T[k] - 1].ev = "sleep"

\* C6 as stated: on the retryable-error path a call makes at most 10 transport
\* calls, ten 429 answers end it with the retries-exhausted error, and no
\* result of a later call is returned.
C6_AtMostTenCalls ==
    \A c \in Callers :
        LET t == call[c].trace
            T == Positions(t, "transport")
        IN  (Len(T) >= 1 /\ t[T[1]].st = "retryable") =>
                /\ Len(T) <= 10
                /\ FirstAnswers(t, 10, "retryable") =>
                      (call[c].pc = "raised" /\ call[c].err = MaxRetriesReached)

\* C6 as amended: on the retryable-error path a call makes at most 11
\* transport calls (the first call and 10 retries); it ends with the
\* retries-exhausted error exactly when all 11 are answered with a retryable
\* status, and then after the waits 1, 2, ..., 512.
C6_AtMostElevenCalls ==
    \A c \in Callers :
        LET t == call[c].trace
            T == Positions(t, "transport")
        IN  (Len(T) >= 1 /\ t[T[1]].st = "retryable") =>
                /\ Len(T) <= 11
                /\ FirstAnswers(t, 11, "retryable") <=>
                      (call[c].pc = "raised" /\ call[c].err = MaxRetriesReached)
                /\ FirstAnswers(t, 11, "retryable") =>
                      Waits(t) = <<1, 2, 4, 8, 16, 32, 64, 128, 256, 512>>
                /\ (FirstAnswers(t, 10, "retryable") /\ Len(T) = 10) =>
                      call[c].pc = "backoff"

C6_Witness ==
    /\ call[0].pc = "raised"
    /\ call[0].err = MaxRetriesReached
    /\ Len(Events(call[0].trace, "transport")) = 11

\* C7: a refresh whose provider calls are all answered with a retryable status
\* makes exactly 5 provider calls, sleeps 1, 2, 4, 8, 16 after the successive
\* failures and then fails with the retries-exhausted error; a refresh whose
\* provider call is answered with a non-retryable status fails after that one
\* call, without a wait.
C7_RefreshSchedule ==
    \A c \in Callers :
        LET t == call[c].trace
            P == Events(t, "provider")
            exhausted == call[c].pc = "raised" /\ call[c].err = RefreshMaxRetriesReached
        IN  /\ Len(P) <= 5
            /\ (Len(P) = 5 /\ \A i \in 1..5 : P[i].st = "retryable") <=> exhausted
            /\ exhausted => Waits(t) = <<1, 2, 4, 8, 16>>
            /\ \A i \in 1..Len(t) :
                  (t[i].ev = "provider" /\ t[i].st = "retryable") =>
                      (i < Len(t) /\ t[i + 1].ev = "sleep")
            /\ (Len(P) >= 1 /\ P[1].st \in {"401", "error"}) =>
                  /\ call[c].pc = "raised"
                  /\ call[c].err \notin {RefreshMaxRetriesReached, MaxRetriesReached}
                  /\ Len(P) = 1
                  /\ Waits(t) = <<>>

C7_Witness ==
    /\ call[0].pc = "raised"
    /\ call[0].err = RefreshMaxRetriesReached
    /\ Len(Events(call[0].trace, "provider")) = 5
    /\ Waits(call[0].trace) = <<1, 2, 4, 8, 16>>

\* The least k with k * ps >= t.
Ceil(t, ps) == CHOOSE k \in 0..t : k * ps >= t /\ (k - 1) * ps < t

\* C8: get_total_pages returns ceil(total_items / page_size) when the response
\* carries total_items, the page size being params' page_size or else 1000, and
\* 1 when the response carries no total_items.
C8_TotalPagesIsCeil ==
    pc = "pool" =>
        total_pages =
            IF first_res.total_items # Absent
            THEN Ceil(first_res.total_items,
                      IF params.page_size # Absent THEN params.page_size ELSE 1000)
            ELSE 1

C8_Witness ==
    /\ pc = "pool"
    /\ params.page_size = Absent
    /\ first_res.total_items = 2500
    /\ total_pages = 3

\* C9: for a registered endpoint the call returns a table only when every page
\* task from 1 to the last page ended with a table, whose rows it holds; once a
\* page task has failed the call never returns, and what it raises is an error.
C9_CompleteOrRaise ==
    /\ (pc = "returned" /\ registered) =>
          \A p \in 1..total_pages :
              /\ p \in Range(futures)
              /\ call[p].pc = "done"
              /\ \A i \in 1..Len(result[p]) : result[p][i] \in Range(all_data_df)
    /\ (\E p \in 1..MaxPages : call[p].pc = "failed") => pc # "returned"
    /\ pc = "raised" => error # NoError

C9_Witness ==
    /\ pc = "raised"
    /\ registered
    /\ all_data_df # <<>>
    /\ \E p \in 1..total_pages : call[p].pc = "failed"
    /\ \E p \in 1..total_pages : call[p].pc = "done" /\ result[p] # <<>>

\* C10: the tasks submitted are exactly those of the pages from the caller's
\* starting page (1 when none was passed) through the last page, one each.
C10_TasksFromStartingPage ==
    pc \in {"collect", "shutdown", "returned"} =>
        LET start == IF arg_page = Absent THEN 1 ELSE arg_page IN
        futures = [i \in 1..(total_pages - start + 1) |-> start + i - 1]
\* C11 as stated: the page count get_total_pages computes is at least 1 for
\* every first response, one with a total-item count of 0 included.
C11_AtLeastOnePage ==
    pc = "pool" => total_pages >= 1

\* C11 as amended: the page count is never negative, and it is 0 exactly for
\* a first response whose total-item count is 0; without a total-item count,
\* or with a positive one, it is at least 1.
C11_ZeroPagesForZeroItems ==
    pc = "pool" =>
        /\ total_pages >= 0
        /\ total_pages = 0 <=> first_res.total_items = 0
        /\ (first_res.total_items = Absent \/ first_res.total_items > 0) => total_pages >= 1

C11_Witness ==
    /\ pc = "pool"
    /\ first_res.kind = "obj"
    /\ first_res.total_items = 0
    /\ total_pages = 0
\* Tasks a worker is executing: taken from the queue and not yet finished.
Executing == {p \in Range(futures) : call[p].pc \notin {"idle", "queued", "done", "failed"}}

\* C12: at every moment at most 5 page tasks are executing, whatever the
\* number of pages; every other submitted task is queued or finished.
C12_AtMostFiveExecuting ==
    /\ Cardinality(Executing) <= 5
    /\ \A p \in Range(futures) \ Executing : call[p].pc \in {"queued", "done", "failed"}
    /\ (\E p \in Range(futures) : call[p].pc = "queued" /\ Cardinality(Executing) < 5) =>
          \E p \in Range(futures) : ENABLED StartTask(p)

C12_Witness ==
    /\ total_pages = 6
    /\ Cardinality(Executing) = 5
    /\ call[6].pc = "queued"

\* C13: a page task whose first call is answered 401 enters a token refresh of
\* its own, also while the refresh of another task is in progress: as many
\* refreshes are entered as tasks received a 401.
C13_EachTaskRefreshes ==
    \A c \in 1..MaxCallers :
        LET t == call[c].trace
            T == Positions(t, "transport")
        IN  (Len(T) >= 1 /\ t[T[1]].st = "401") =>
                /\ Len(Positions(t, "refresh")) = 1
                /\ Len(T) = 1 => call[c].pc \in {"refresh", "recall"}

\* Two refreshes in progress at the same time.
C13_Witness ==
    /\ call[1].pc = "refresh"
    /\ call[2].pc = "refresh"
    /\ Len(Positions(call[1].trace, "refresh")) + Len(Positions(call[2].trace, "refresh")) = 2

\* C14: nothing is cancelled.  While the failure of a task is on its way to
\* the caller a queued task can still be started, and the failure reaches the
\* caller only when every submitted task has finished.
C14_NoCancellation ==
    /\ pc = "raised" => \A f \in Range(futures) : call[f].pc \in {"done", "failed"}
    /\ pc = "shutdown" =>
          \A p \in Range(futures) :
              /\ call[p].pc = "queued" => \E q \in Range(futures) : ENABLED StartTask(q)
              /\ call[p].pc = "call" => ENABLED FirstCall(p)

\* A task finished with a table that was never collected, the call having
\* raised the failure of another task.
C14_Witness ==
    /\ pc = "raised"
    /\ \E p \in Range(futures) : call[p].pc = "failed" /\ p \in consumed
    /\ \E q \in Range(futures) : call[q].pc = "done" /\ q \notin consumed /\ result[q] # <<>>
C16_OtherFailurePropagates ==
    /\ \A c \in Callers :
          LET t == call[c].trace
              T == Positions(t, "transport")
          IN  (Len(T) >= 1 /\ t[T[1]].st = "error") =>
                  /\ call[c].pc = "raised"
                  /\ call[c].err \in {NotFound, OtherException}
                  /\ t = <<Ev("transport", t[1].arg, "error")>>
    /\ \A c \in Callers : call[c].pc = "backoff" => call[c].trace[1].st = "retryable"
    /\ \A c \in Callers : call[c].pc \in {"refresh", "recall"} => call[c].trace[1].st = "401"

C16_Witness ==
    /\ call[0].pc = "raised"
    /\ call[0].err = NotFound
    /\ call[0].trace = <<Ev("transport", endpoint_dict, "error")>>
    /\ access_token = 1

\* C17: after a 401 and a successful refresh the single retry goes through
\* the client rebuilt with the new token, not through the one that was
\* answered 401.
C17_RetryThroughRebuiltClient ==
    \A c \in Callers :
        LET t == call[c].trace
            T == Positions(t, "transport")
        IN  (Len(T) >= 2 /\ t[T[1]].st = "401") => t[T[2]].arg > t[T[1]].arg
\* C18: the stored access token changes only in the step of a successful
\* provider call, which assigns it once; every step of a refresh that fails
\* (another status, an unexpected error, the fifth retryable answer) or has
\* to retry leaves it as it was.
C18_TokenChangesOnlyOnSuccess ==
    [][ /\ access_token' # access_token =>
              \E c \in Callers :
                  /\ call[c].pc = "refresh"
                  /\ call'[c].pc = "recall"
                  /\ call'[c].trace = Append(call[c].trace, Ev("provider", 0, "ok"))
                  /\ access_token' = issued'
                  /\ access_token' \notin 1..issued
        /\ \A c \in Callers :
              (call[c].pc = "refresh" /\ call'[c] # call[c] /\ call'[c].pc # "recall") =>
                  access_token' = access_token
      ]_vars

\* A refresh that gave up after five retryable answers, the token untouched.
C18_Witness ==
    /\ call[0].pc = "raised"
    /\ call[0].err = RefreshMaxRetriesReached
    /\ Len(Events(call[0].trace, "provider")) = refresh_max_retries
    /\ access_token = 1
\* C19: the recovery paths do not chain.  A 401 answered to a retry of the
\* backoff loop is raised with no refresh, and a 429/5xx answered to the one
\* retry after a refresh is raised with no wait and no further call.
C19_RecoveryPathsNeverChain ==
    \A c \in Callers :
        LET t == call[c].trace
            T == Positions(t, "transport")
        IN  /\ (Len(T) >= 2 /\ t[T[1]].st = "retryable" /\ t[T[Len(T)]].st = "401") =>
                  /\ call[c].pc = "raised"
                  /\ call[c].err = Unauthorized
                  /\ Events(t, "refresh") = <<>>
                  /\ Events(t, "provider") = <<>>
                  /\ T[Len(T)] = Len(t)
            /\ (Len(T) >= 1 /\ t[T[1]].st = "retryable") =>
                  \A i \in 1..(Len(T) - 1) : t[T[i]].st = "retryable"
            /\ (Len(T) >= 2 /\ t[T[1]].st = "401" /\ t[T[2]].st = "retryable") =>
                  /\ call[c].pc = "raised"
                  /\ call[c].err \in RetryableStatuses
                  /\ Len(T) = 2
                  /\ T[2] = Len(t)
                  /\ \A i \in 1..Len(t) : t[i].ev = "sleep" => T[1] < i /\ i < T[2]

C19_Witness ==
    /\ call[0].pc = "raised"
    /\ call[0].err = Unauthorized
    /\ call[0].trace[1].st = "retryable"
    /\ Len(Events(call[0].trace, "transport")) >= 3
    /\ Events(call[0].trace, "refresh") = <<>>
\* Every transport and provider call returns and the calling thread and the
\* workers keep being scheduled: a step that can be taken is eventually taken.
FairSpec == Spec /\ WF_vars(Next)

\* C20: every call of fetch_all_data_bridges_data ends, with a table or with an
\* error, whatever the answers; a caller makes at most 11 transport calls, one
\* refresh and 5 provider calls.
C20_Terminates ==
    /\ [](\A c \in Callers :
              /\ Len(Events(call[c].trace, "transport")) <= 1 + retry_max_retries
              /\ Len(Events(call[c].trace, "refresh")) <= 1
              /\ Len(Events(call[c].trace, "provider")) <= refresh_max_retries)
    /\ <>(pc \in {"returned", "raised"})

\* The longest fetch: every transport call answered 429, the call given up.
C20_Witness ==
    /\ pc = "raised"
    /\ error = MaxRetriesReached
    /\ \A c \in Callers : ~running(call[c])
====
